---- MODULE Spec2Model ----
(***************************************************************************)
(* Model of packages/components/nodes/tools/MCP/core.ts: the MCPToolkit    *)
(* lifecycle (initialize / cleanup), the process-wide activeToolkits       *)
(* registry, the signal-driven shutdownGracefully sweep and the MCPTool    *)
(* adapter's response handling.                                            *)
(*                                                                         *)
(* JavaScript runs one task at a time and an async function gives up       *)
(* control only at an await.  Every action below is therefore one          *)
(* run-to-completion segment of the code: from a call (or from the         *)
(* settling of the awaited promise) up to the next await or the return.    *)
(* `calls` holds one record per async call suspended at an await and       *)
(* `returned` the calls that returned in the latest step.                  *)
(***************************************************************************)
EXTENDS Integers, Sequences, FiniteSets, TLC

\* ------------------------------------------------------------------ bounds
NumToolkits == 2      \* MCPToolkit instances in SpecSweep
MaxCalls    == 2      \* initialize() and cleanup() calls the consumers make in Spec
ReadyCalls  == 1      \* the same, in SpecReady

Toolkits == 1..NumToolkits
CallIds  == 1..(MaxCalls + ReadyCalls + NumToolkits + 2)   \* names of suspended calls
ObjIds   == 1..(MaxCalls + ReadyCalls + NumToolkits)       \* names of Client / transport pairs

\* ---------------------------------------------------------- input domains
\* server_config.command as passed to the constructor: a command, the empty
\* string, or no command key at all.
Absent   == "<absent>"
Commands == {"npx", "", Absent}

\* inputSchema of a remote tool descriptor (ListToolsResult.tools[i]).
ObjSchema    == [type |-> "object", properties |-> "map"]
NoPropSchema == [type |-> "object", properties |-> Absent]
StrSchema    == [type |-> "string", properties |-> "map"]
Descriptor(n, s) == [name |-> n, inputSchema |-> s]
\* tools/list replies the server may give.
Listings == { <<>>,
              <<Descriptor("a", ObjSchema)>>,
              <<Descriptor("a", ObjSchema), Descriptor("b", NoPropSchema)>>,
              <<Descriptor("a", StrSchema)>> }

\* A ChildProcess handle a toolkit owner may store in the public field
\* childProcess: pid is undefined when the spawn failed, killed is the
\* handle's own flag.  tr names the transport whose subprocess it is.
Handle(tr, pid, killed) == [tr |-> tr, pid |-> pid, killed |-> killed]
HandleKinds == { <<TRUE, FALSE>>, <<TRUE, TRUE>>, <<FALSE, FALSE>> }

\* Whether the operating system lets the host process signal a subprocess.
KillPerms == BOOLEAN

VARIABLES
    \* --- module state of core.ts
    activeToolkits,   \* Set<MCPToolkit>                                (line 16)
    shuttingDown,     \* the once-only latch                            (line 17)
    \* --- fields of each MCPToolkit; 0 / <<>> stand for null
    server_config,    \* [Toolkits -> Commands], the command of the config
    client,           \* [Toolkits -> ObjIds or 0]   Client object
    transport,        \* [Toolkits -> ObjIds or 0]   StdioClientTransport object
    _tools,           \* [Toolkits -> <<>> or <<listing>>]
    tools,            \* [Toolkits -> Seq(adapter)]
    childProcess,     \* [Toolkits -> <<>> or <<handle>>]
    \* --- the world outside the module
    trState,          \* [ObjIds -> "none" | "new" | "live" | "closed"]: each transport's subprocess
    listeners,        \* signals whose process.once listener is still installed
    exited,           \* the process was terminated by a signal no listener handled
    instances,        \* the toolkits that were constructed (fixed)
    budget,           \* the number of calls the consumers may still make
    \* --- control state
    calls,            \* [ids of the suspended calls -> call record]
    nObjs,            \* Client objects constructed so far
    inv,              \* one invocation of a tool adapter (the callback of MCPTool)
    \* --- history (never read by an action's guard or effect on the above)
    returned,         \* what the calls that returned in the latest step did
    sweeps            \* how often shutdownGracefully got past its latch

vars == << activeToolkits, shuttingDown, server_config, client, transport, _tools,
           tools, childProcess, trState, listeners, exited, instances, budget,
           calls, nObjs, inv, returned, sweeps >>

\* Objects are named by a counter: the Client and the StdioClientTransport
\* that one initialize() call constructs share one name.  A suspended call is
\* named by the least name no other suspended call has.

\* A call record.  id/kind/tk/pc describe the call; the rest are its local
\* variables and what it did.
Frame(id, kind, tk, pc, parent) ==
    [ id      |-> id,
      kind    |-> kind,      \* "init" | "cleanup" | "shutdown"
      tk      |-> tk,        \* the toolkit (`this`), 0 for shutdownGracefully
      pc      |-> pc,        \* the await it is suspended at
      parent  |-> parent,    \* the shutdownGracefully call that started it, or 0
      fresh   |-> TRUE,      \* the call has not been suspended yet
      obj     |-> 0,         \* initialize: the Client and transport it constructed
      cl      |-> 0,         \* initialize: the client the tools/list request went to
      val     |-> <<>>,      \* initialize: the value of the pending get_tools() promise
      rej     |-> FALSE,     \* initialize: the pending get_tools() promise is rejected
      ready0  |-> FALSE,     \* initialize: client and _tools were both non-null at the call
      reg0    |-> FALSE,     \* initialize: the toolkit was registered at the call (until suspended)
      ran     |-> FALSE,     \* cleanup() was entered in this call
      in0     |-> FALSE,     \* ... with the toolkit in the registry
      second  |-> FALSE,     \* ... right after another cleanup() of the toolkit returned
      obs0    |-> <<>>,      \* ... and the toolkit's fields at that entry, until the call is suspended
      passed  |-> FALSE,     \* cleanup() / shutdownGracefully got past its check
      readded |-> {},        \* toolkits added to the registry again since that check
      tr      |-> 0,         \* the transport whose close() this call invoked
      closeRes|-> "",        \* "resolved" | "rejected" once that close() settled
      sig     |-> <<>>,      \* signals this call sent with process.kill
      killable|-> FALSE,     \* processToKill had a pid and was not marked killed
      killRes |-> "",        \* "ok" | "ESRCH" | "EPERM": what process.kill(pid, 'SIGTERM') did
      snap    |-> {},        \* shutdownGracefully: toolkitsToClean
      kids    |-> {} ]       \* shutdownGracefully: the cleanup calls it still awaits

\* The fields of a toolkit that its users can observe.
Obs(S, t) == << S.client[t], S.transport[t], S._tools[t], S.tools[t], S.childProcess[t] >>

\* ------------------------------------------------------- JavaScript values
\* The values a tool call handles: undefined, null, strings, numbers, arrays
\* and objects (an object is the sequence of its <<key, value>> pairs).
JSVal(t, n, s, a, o) == [t |-> t, n |-> n, s |-> s, a |-> a, o |-> o]
Undefined == JSVal("undefined", 0, "", <<>>, <<>>)
Null      == JSVal("null", 0, "", <<>>, <<>>)
Str(s)    == JSVal("string", 0, s, <<>>, <<>>)
Num(n)    == JSVal("number", n, "", <<>>, <<>>)
Arr(a)    == JSVal("array", 0, "", a, <<>>)
Obj(o)    == JSVal("object", 0, "", <<>>, o)

\* v ?? d
nullish(v, d) == IF v.t \in {"undefined", "null"} THEN d ELSE v

\* the truthiness of a value
truthy(v) ==
    CASE v.t \in {"undefined", "null"} -> FALSE
      [] v.t = "string" -> v.s # ""
      [] v.t = "number" -> v.n # 0
      [] OTHER -> TRUE

\* obj.key
get(obj, key) ==
    IF \E i \in 1..Len(obj.o) : obj.o[i][1] = key
    THEN obj.o[CHOOSE i \in 1..Len(obj.o) : obj.o[i][1] = key][2]
    ELSE Undefined

\* the strings of a sequence, separated by commas
RECURSIVE join(_)
join(ss) ==
    IF ss = <<>> THEN ""
    ELSE IF Len(ss) = 1 THEN ss[1]
    ELSE ss[1] \o "," \o join(Tail(ss))

\* the JSON text of a value other than undefined: a string is quoted, an
\* undefined array element reads null, an undefined object member is left out
RECURSIVE jsonText(_)
jsonText(v) ==
    CASE v.t = "null" -> "null"
      [] v.t = "string" -> "\"" \o v.s \o "\""
      [] v.t = "number" -> ToString(v.n)
      [] v.t = "array" ->
            "[" \o join([i \in 1..Len(v.a) |->
                           IF v.a[i].t = "undefined" THEN "null" ELSE jsonText(v.a[i])]) \o "]"
      [] v.t = "object" ->
            LET present == SelectSeq(v.o, LAMBDA kv : kv[2].t # "undefined")
            IN  "{" \o join([i \in 1..Len(present) |->
                               "\"" \o present[i][1] \o "\":" \o jsonText(present[i][2])]) \o "}"

\* JSON.stringify(v): undefined for undefined, else the JSON text
stringify(v) == IF v.t = "undefined" THEN Undefined ELSE Str(jsonText(v))

\* `${v}` for the values interpolated here
template(v) == IF v.t = "string" THEN v.s ELSE IF v.t = "number" THEN ToString(v.n) ELSE v.t

\* What is kept of a call when it returns.
Summary(fr, res, S) ==
    [ kind |-> fr.kind, tk |-> fr.tk, parent |-> fr.parent # 0, fresh |-> fr.fresh,
      obj |-> fr.obj, cl |-> fr.cl, second |-> fr.second,
      ready0 |-> fr.ready0, reg0 |-> fr.reg0, in0 |-> fr.in0,
      killable |-> fr.killable, killRes |-> fr.killRes,
      nulled |-> fr.tk # 0 /\ Obs(S, fr.tk) = << 0, 0, <<>>, <<>>, <<>> >>,
      same |-> fr.tk # 0 /\ fr.obs0 = Obs(S, fr.tk), \* the fields are as at cleanup()'s entry
      kids |-> fr.kids,
      res     |-> res,                              \* "ok": resolved, "err": rejected
      member  |-> fr.tk \in S.activeToolkits,       \* registry membership at the return
      ready   |-> fr.tk # 0 /\ S.client[fr.tk] # 0 /\ S._tools[fr.tk] # <<>>,
      ran |-> fr.ran, passed |-> fr.passed, readded |-> fr.readded,
      closed |-> fr.tr # 0, closeRes |-> fr.closeRes, sig |-> fr.sig,
      snap |-> fr.snap,
      left |-> fr.snap \cap S.activeToolkits ]      \* snapshot members registered at the return

\* The whole state as one record, so that the synchronous part of several
\* calls can be composed inside one action.
Cur ==
    [ activeToolkits |-> activeToolkits, client |-> client, transport |-> transport,
      _tools |-> _tools, tools |-> tools, childProcess |-> childProcess,
      trState |-> trState, budget |-> budget, calls |-> [k \in DOMAIN calls |-> [calls[k] EXCEPT !.fresh = FALSE]],
      nObjs |-> nObjs, returned |-> {}, sweeps |-> sweeps,
      prev |-> returned ]

Commit(S) ==
    /\ activeToolkits' = S.activeToolkits
    /\ client' = S.client
    /\ transport' = S.transport
    /\ _tools' = S._tools
    /\ tools' = S.tools
    /\ childProcess' = S.childProcess
    /\ trState' = S.trState
    /\ calls' = S.calls
    /\ nObjs' = S.nObjs
    /\ budget' = S.budget
    /\ returned' = S.returned
    /\ sweeps' = S.sweeps

\* a call starts: its record, named by the next call id
NextId(S) == CHOOSE i \in CallIds : i \notin DOMAIN S.calls /\ \A j \in 1..(i - 1) : j \in DOMAIN S.calls

NewCall(S, kind, tk, pc, parent) ==
    [S EXCEPT !.budget = IF kind = "shutdown" \/ parent # 0 THEN @ ELSE @ - 1,
              !.calls = (NextId(S) :> Frame(NextId(S), kind, tk, pc, parent)) @@ @]

\* a call returns: its record leaves `calls`
Return(S, f, res) ==
    [S EXCEPT !.calls = [k \in DOMAIN S.calls \ {f} |->
                           IF k = S.calls[f].parent
                           THEN [S.calls[k] EXCEPT !.kids = @ \ {f}] ELSE S.calls[k]],
              !.returned = @ \cup {Summary(S.calls[f], res, S)}]

\* ------------------------------------------------------- MCPToolkit.cleanup
\* a cleanup() whose check of line 137 is missing
cleanupUnguarded(S, t) == TRUE

\* line 137: the idempotency check against the registry
cleanupGuard(S, t) == t \in S.activeToolkits

\* a cleanup() whose line 144 is missing: the toolkit stays in the registry
cleanupStaysRegistered(S, t) == S

\* line 144: activeToolkits.delete(this)
cleanupUnregister(S, t) == [S EXCEPT !.activeToolkits = @ \ {t}]

\* process.kill(pid, sig) as Node implements it: it returns true when the
\* signal was delivered and throws an errno exception otherwise (ESRCH when
\* the process is gone, here EPERM for every other failure).
processKill(S, h, perm) ==
    IF S.trState[h.tr] # "live" THEN "ESRCH"
    ELSE IF perm THEN "ok" ELSE "EPERM"

\* lines 185-228: SIGTERM first; SIGKILL only in the branch where
\* process.kill returned a falsy value without throwing; a thrown error of
\* either call is caught and logged.
cleanupSignals(outcome) ==
    LET threw    == outcome # "ok"
        killSent == outcome = "ok"
    IN  IF ~threw /\ ~killSent THEN <<"SIGTERM", "SIGKILL">> ELSE <<"SIGTERM">>

\* lines 174-237: processToKill = this.childProcess; this.childProcess = null;
\* signal it when the handle has a pid and is not marked killed.
cleanupKill(S, f, perm) ==
    LET t  == S.calls[f].tk
        p  == S.childProcess[t]
        S1 == [S EXCEPT !.childProcess[t] = <<>>,
                        !.calls[f].killable = p # <<>> /\ p[1].pid /\ ~p[1].killed]
    IN  IF p # <<>> /\ p[1].pid /\ ~p[1].killed
        THEN LET outcome == processKill(S1, p[1], perm)
             IN  [S1 EXCEPT !.calls[f].sig = @ \o cleanupSignals(outcome),
                            !.calls[f].killRes = outcome,
                            !.trState[p[1].tr] = IF outcome = "ok" THEN "closed" ELSE @]
        ELSE S1

\* lines 239-242
cleanupNullify(S, t) ==
    [S EXCEPT !.client[t] = 0, !._tools[t] = <<>>, !.tools[t] = <<>>]

\* The call returns: cleanup() resolves; an initialize() that awaited it in
\* its catch block then rethrows (lines 77-79).
cleanupReturn(S, f) ==
    Return(S, f, IF S.calls[f].kind = "init" THEN "err" ELSE "ok")

\* lines 172-245: everything after the transport step
cleanupTail(S, f, perm) ==
    cleanupReturn(cleanupNullify(cleanupKill(S, f, perm), S.calls[f].tk), f)

\* lines 148-157: the transport step up to the await of transport.close()
cleanupClose(S, f) ==
    LET t == S.calls[f].tk
    IN  [S EXCEPT !.calls[f].tr = S.transport[t],
                  !.calls[f].obs0 = <<>>,
                  !.calls[f].pc = "close"]

\* lines 133-157: cleanup() from its entry to its first await (the await of
\* transport.close()), or to its return when it does not get there.
cleanupEnter(S, f, perm) ==
    LET t  == S.calls[f].tk
        S0 == [S EXCEPT !.calls[f].ran = TRUE,
                        !.calls[f].second = \E r \in S.prev : r.ran /\ r.tk = t,
                        !.calls[f].in0 = t \in S.activeToolkits,
                        !.calls[f].obs0 = Obs(S, t)]
    IN  IF ~cleanupGuard(S0, t)
        THEN cleanupReturn(S0, f)
        ELSE LET S1 == [cleanupUnregister(S0, t) EXCEPT !.calls[f].passed = TRUE]
             IN  IF S1.transport[t] # 0
                 THEN cleanupClose(S1, f)
                 ELSE cleanupTail(S1, f, perm)

\* a cleanup() whose line 169 is missing: the closed transport stays referenced
cleanupKeepTransport(S, t) == S

\* line 169: this.transport = null, after the close attempt
cleanupDropTransport(S, t) == [S EXCEPT !.transport[t] = 0]

\* a cleanup() without the try/catch of lines 152-167: a rejected close()
\* makes cleanup() reject there
cleanupAbortOnCloseError(S, f, resolved, perm) ==
    IF resolved
    THEN cleanupTail([S EXCEPT !.trState[S.calls[f].tr] = "closed",
                               !.calls[f].closeRes = "resolved",
                               !.transport[S.calls[f].tk] = 0], f, perm)
    ELSE Return([S EXCEPT !.calls[f].closeRes = "rejected"], f, "err")

\* a cleanup() that never resumes when its close() rejected
cleanupHangOnCloseError(S, f, resolved, perm) ==
    IF resolved
    THEN cleanupTail([S EXCEPT !.trState[S.calls[f].tr] = "closed",
                               !.calls[f].closeRes = "resolved",
                               !.transport[S.calls[f].tk] = 0], f, perm)
    ELSE [S EXCEPT !.calls[f].closeRes = "rejected", !.calls[f].pc = "hung"]

\* lines 157-170, resumed: close() settled (resolved: the subprocess was
\* shut down; rejected: caught and logged); this.transport = null.
cleanupAfterClose(S, f, resolved, perm) ==
    LET t  == S.calls[f].tk
        S1 == [S EXCEPT !.trState[S.calls[f].tr] = IF resolved THEN "closed" ELSE @,
                        !.calls[f].closeRes = IF resolved THEN "resolved" ELSE "rejected"]
    IN  cleanupTail(cleanupDropTransport(S1, t), f, perm)

\* ---------------------------------------------------- MCPToolkit.initialize
\* an initialize() whose check of line 44 is missing
initNeverAlready(S, t) == FALSE

\* line 44: "already initialized"
initAlready(S, t) == S.client[t] # 0 /\ S._tools[t] # <<>>

\* a setupTransport whose check of line 88 is missing
commandNeverMissing(command) == FALSE

\* line 88: if (!command) throw
commandMissing(command) == command = Absent \/ command = ""

\* lines 84-113, setupTransport: a new StdioClientTransport, or null and a
\* rethrown error when the command is missing.
setupTransport(S, t, id, command) ==
    IF commandMissing(command)
    THEN [S EXCEPT !.transport[t] = 0]
    ELSE [S EXCEPT !.transport[t] = id, !.trState[id] = "new"]

\* line 324, createSchemaModel: the condition under which it throws
schemaInvalid(inputSchema) ==
    inputSchema.type # "object" \/ inputSchema.properties = Absent

\* lines 115-131, get_tools(): the promise it returns, decided by its
\* synchronous part.  Every adapter captures the client of that moment.
get_tools(S, t) ==
    IF S._tools[t] = <<>> \/ S.client[t] = 0
    THEN [rej |-> TRUE, val |-> <<>>]
    ELSE LET L == S._tools[t][1]
         IN  IF \E i \in 1..Len(L) : schemaInvalid(L[i].inputSchema)
             THEN [rej |-> TRUE, val |-> <<>>]
             ELSE [rej |-> FALSE,
                   val |-> [i \in 1..Len(L) |-> [client |-> S.client[t], name |-> L[i].name]]]

\* lines 74-80: the catch block awaits cleanup() and rethrows
initCatch(S, f, perm) == cleanupEnter(S, f, perm)

\* initialize() resolves
initReturn(S, f) == Return(S, f, "ok")

\* lines 43-66: from the call to the await of client.connect(), which starts
\* the transport and so spawns the subprocess.
initEnter(S, t, command, perm) ==
    LET f  == NextId(S)
        o  == S.nObjs + 1
        S0 == NewCall(S, "init", t, "connect", 0)
    IN  IF initAlready(S0, t)
        THEN initReturn([S0 EXCEPT !.calls[f].ready0 = S.client[t] # 0 /\ S._tools[t] # <<>>,
                                   !.calls[f].reg0 = t \in S.activeToolkits,
                                   !.calls[f].obs0 = Obs(S, t)], f)
        ELSE LET S1 == setupTransport([S0 EXCEPT !.client[t] = o, !.nObjs = o,
                                                 !.calls[f].ready0 = S.client[t] # 0 /\ S._tools[t] # <<>>,
                                                 !.calls[f].obj = o], t, o, command)
             IN  IF S1.transport[t] = 0
                 THEN initCatch(S1, f, perm)
                 ELSE [S1 EXCEPT !.trState[S1.transport[t]] = "live"]

\* lines 66-69: connect() settled; on success this.client.request(tools/list)
\* is issued on whatever this.client is now (a TypeError when it is null).
initAfterConnect(S, f, ok, perm) ==
    LET t  == S.calls[f].tk
        S0 == S
    IN  IF ok /\ S0.client[t] # 0
        THEN [S0 EXCEPT !.calls[f].cl = S0.client[t], !.calls[f].pc = "request"]
        ELSE initCatch(S0, f, perm)

\* lines 69-70: the listing arrived and is stored; get_tools() is called.
initAfterRequest(S, f, ok, L, perm) ==
    LET t  == S.calls[f].tk
        S0 == S
    IN  IF ok
        THEN LET S1 == [S0 EXCEPT !._tools[t] = <<L>>]
                 g  == get_tools(S1, t)
             IN  [S1 EXCEPT !.calls[f].pc = "get_tools",
                            !.calls[f].rej = g.rej, !.calls[f].val = g.val]
        ELSE initCatch(S0, f, perm)

\* line 70: get_tools() settled; this.tools is assigned and initialize returns.
initAfterGetTools(S, f, perm) ==
    LET t  == S.calls[f].tk
        S0 == S
    IN  IF S0.calls[f].rej
        THEN initCatch(S0, f, perm)
        ELSE initReturn([S0 EXCEPT !.tools[t] = S0.calls[f].val], f)

\* ------------------------------------------------------ shutdownGracefully
\* a loop that stops after its first iteration
sweepFirst(S, sd, todo, perms) ==
    IF todo = {} THEN S
    ELSE LET t  == CHOOSE x \in todo : \A y \in todo : x <= y
             f  == NextId(S)
             S1 == NewCall(S, "cleanup", t, "", sd)
         IN  cleanupEnter([S1 EXCEPT !.calls[sd].kids = @ \cup {f}], f, perms[t])

\* lines 349-354: the loop over the snapshot; each cleanup() runs up to its
\* first await before the next one is called.
RECURSIVE sweep(_, _, _, _)
sweep(S, sd, todo, perms) ==
    IF todo = {} THEN S
    ELSE LET t  == CHOOSE x \in todo : \A y \in todo : x <= y
             f  == NextId(S)
             S1 == NewCall(S, "cleanup", t, "", sd)
             S2 == cleanupEnter([S1 EXCEPT !.calls[sd].kids = @ \cup {f}], f, perms[t])
         IN  sweep(S2, sd, todo \ {t}, perms)

\* a shutdownGracefully whose test of line 337 is missing
neverLatched(sd) == FALSE

\* line 337: the latch test
latched(sd) == sd

\* a shutdownGracefully whose line 338 is missing: the latch stays as it was
leaveLatch(sd) == sd

\* line 338: the latch is set
setLatch(sd) == TRUE

\* lines 335-357: from the signal to the await of Promise.allSettled, or to
\* the return when the latch is set or the registry is empty.
shutdownEnter(S, sd, perms) ==
    LET f  == NextId(S)
        S0 == NewCall(S, "shutdown", 0, "allSettled", 0)
    IN  IF latched(sd)
        THEN Return(S0, f, "ok")
        ELSE LET toolkitsToClean == S0.activeToolkits
                 S1 == [S0 EXCEPT !.calls[f].passed = TRUE, !.sweeps = @ + 1,
                                  !.calls[f].snap = toolkitsToClean]
             IN  IF toolkitsToClean = {}
                 THEN Return(S1, f, "ok")
                 ELSE sweep(S1, f, toolkitsToClean, perms)

\* lines 357-365: every cleanup promise has settled
shutdownReturn(S, f) ==
    Return(S, f, "ok")

\* ------------------------------------------------------------------ MCPTool
\* The replies of the remote tool: an object with any of the members
\* content, toolResult, result and data.
TextItem == Obj(<< <<"type", Str("text")>>, <<"text", Str("hi")>> >>)
Contents    == { Undefined, Arr(<<>>), Arr(<<TextItem>>), Str("raw") }
ToolResults == { Undefined, Null, Str("done"), Num(7) }
Results     == { Undefined, Num(42) }
Datas       == { Undefined, Str("d") }

Reply(c, tr, r, d) ==
    Obj(<< <<"content", c>>, <<"toolResult", tr>>, <<"result", r>>, <<"data", d>> >>)

Replies == { Reply(c, tr, r, d) : c \in Contents, tr \in ToolResults, r \in Results, d \in Datas }

\* What a thrown error shows to the callback: whether it is a ZodError, its
\* input member and its message.
Thrown(zod, input, message) == [zod |-> zod, input |-> input, message |-> message]
NoError == Thrown(FALSE, Undefined, Undefined)

\* the settled promise of client.callTool
Fulfilled(res) == [ok |-> TRUE, res |-> res, err |-> NoError]
Rejected(err)  == [ok |-> FALSE, res |-> Undefined, err |-> err]

\* line 271, client.callTool(params, CallToolResultSchema): the request fails
\* (net is false), or the reply is parsed: content must be an array; a reply
\* without content gets the default [] where the schema has that default and
\* is refused otherwise.  A ZodError carries the reply as input or does not.
callToolStandard(reply, net, defaults, withInput) ==
    LET c == get(reply, "content")
        refused == Rejected(Thrown(TRUE, IF withInput THEN reply ELSE Undefined, Str("invalid_type")))
    IN  IF ~net THEN Rejected(Thrown(FALSE, Undefined, Str("Connection closed")))
        ELSE IF c.t = "array" THEN Fulfilled(reply)
        ELSE IF c.t = "undefined" /\ defaults
             THEN Fulfilled(Reply(Arr(<<>>), get(reply, "toolResult"),
                                  get(reply, "result"), get(reply, "data")))
             ELSE refused

\* line 279, client.callTool(params, CompatibilityCallToolResultSchema): the
\* standard schema, or else any object (toolResult is of type unknown).
callToolCompat(reply, net, defaults) ==
    IF ~net THEN Rejected(Thrown(FALSE, Undefined, Str("Connection closed")))
    ELSE IF callToolStandard(reply, net, defaults, FALSE).ok
         THEN callToolStandard(reply, net, defaults, FALSE)
         ELSE Fulfilled(reply)

\* what the callback has come to: a value for outputString, or an exception
Output(v) == [raised |-> FALSE, val |-> v]
Raise     == [raised |-> TRUE, val |-> Undefined]

\* line 272
invokeStandard(standardRes) ==
    Output(stringify(nullish(get(standardRes, "content"), Str(""))))

\* lines 282-284
invokeCompat(compatRes) ==
    LET toolResult == get(compatRes, "toolResult")
    IN  Output(IF toolResult.t = "string" THEN toolResult
               ELSE stringify(nullish(toolResult, Str(""))))

\* a callback without the inner try/catch: the second error escapes
invokeRethrow(name, error1, error2) == Raise

\* lines 285-304: both attempts failed
invokeFallback(name, error1, error2) ==
    LET fallbackData ==
            "Error: Tool " \o name \o " failed. Standard Schema Error: "
                \o template(nullish(error1.message, Str("Unknown")))
                \o ". Compat Schema Error: "
                \o template(nullish(error2.message, Str("Unknown")))
    IN  IF error1.zod /\ truthy(error1.input)
        THEN Output(Str("Error: Tool " \o name \o " failed validation. Raw Response: "
                          \o template(stringify(error1.input))))
        ELSE Output(Str(fallbackData))

\* line 308
invokeReturn(name, outputString) ==
    nullish(outputString, Str("Error: Tool " \o name \o " resulted in undefined output."))

\* An invocation: where it is, the client the adapter was built with (line
\* 249), the tool's reply, the first error, the callTool requests it has
\* made, whether every one of them was answered, whether the client's
\* transport was live at the call and found closed by a request, and how it
\* ended.
Invocation(pc, reply) ==
    [ pc |-> pc, client |-> 0, reply |-> reply, error1 |-> NoError, requests |-> 0,
      answered |-> TRUE, live0 |-> FALSE, cut |-> FALSE,
      path |-> "", raised |-> FALSE, out |-> Undefined ]

NoInvocation == Invocation("none", Undefined)

ToolName == "a"

Finish(path, o) ==
    [inv EXCEPT !.pc = "done", !.path = path, !.raised = o.raised,
                !.out = IF o.raised THEN Undefined ELSE invokeReturn(ToolName, o.val)]

Still == /\ ~exited
         /\ UNCHANGED << activeToolkits, shuttingDown, server_config, client, transport, _tools,
                         tools, childProcess, trState, listeners, exited, instances, budget,
                         calls, nObjs, sweeps >>
         /\ returned' = {}

\* a request on a client whose transport is closed is not answered
Connected == trState[inv.client] = "live"

\* lines 263-271: the callback is called and issues the first request
ToolInvoke ==
    /\ inv.pc = "idle"
    /\ inv' = [inv EXCEPT !.pc = "standard", !.requests = @ + 1, !.live0 = Connected]
    /\ Still

\* lines 271-279: the first request settles; on an error the second is issued
StandardSettles ==
    /\ inv.pc = "standard"
    /\ \E net \in BOOLEAN, defaults \in BOOLEAN, withInput \in BOOLEAN :
          LET r == callToolStandard(inv.reply, net, defaults, withInput)
          IN  /\ net => Connected
              /\ inv' = IF r.ok
                        THEN [Finish("standard", invokeStandard(r.res))
                                EXCEPT !.answered = @ /\ net, !.cut = @ \/ ~Connected]
                        ELSE [inv EXCEPT !.pc = "compat", !.error1 = r.err,
                                         !.requests = @ + 1, !.answered = @ /\ net,
                                         !.cut = @ \/ ~Connected]
    /\ Still

\* lines 279-308: the second request settles
CompatSettles ==
    /\ inv.pc = "compat"
    /\ \E net \in BOOLEAN, defaults \in BOOLEAN :
          LET r == callToolCompat(inv.reply, net, defaults)
          IN  /\ net => Connected
              /\ inv' = IF r.ok
                        THEN [Finish("compat", invokeCompat(r.res))
                                EXCEPT !.answered = @ /\ net, !.cut = @ \/ ~Connected]
                        ELSE [Finish("fallback", invokeFallback(ToolName, inv.error1, r.err))
                                EXCEPT !.answered = @ /\ net, !.cut = @ \/ ~Connected]
    /\ Still

\* ------------------------------------------------------------------ actions
Room == budget > 0

\* the process is running; what no method of the toolkit assigns
Frozen == ~exited /\ UNCHANGED <<server_config, listeners, exited, shuttingDown, instances, inv>>

\* a consumer calls toolkit.initialize()
Initialize(t) ==
    /\ Room
    /\ \E perm \in KillPerms : Commit(initEnter(Cur, t, server_config[t], perm))
    /\ Frozen

ConnectSettles(f) ==
    /\ f \in DOMAIN calls
    /\ calls[f].kind = "init" /\ calls[f].pc = "connect"
    /\ \E ok \in BOOLEAN, perm \in KillPerms :
          /\ ok => trState[calls[f].obj] = "live"
          /\ Commit(initAfterConnect(Cur, f, ok, perm))
    /\ Frozen

RequestSettles(f) ==
    /\ f \in DOMAIN calls
    /\ calls[f].kind = "init" /\ calls[f].pc = "request"
    /\ \E ok \in BOOLEAN, L \in Listings, perm \in KillPerms :
          /\ ok => trState[calls[f].cl] = "live"
          /\ Commit(initAfterRequest(Cur, f, ok, L, perm))
    /\ Frozen

GetToolsSettles(f) ==
    /\ f \in DOMAIN calls
    /\ calls[f].kind = "init" /\ calls[f].pc = "get_tools"
    /\ \E perm \in KillPerms : Commit(initAfterGetTools(Cur, f, perm))
    /\ Frozen

\* a consumer calls toolkit.cleanup()
Cleanup(t) ==
    /\ Room
    /\ \E perm \in KillPerms :
          Commit(cleanupEnter(NewCall(Cur, "cleanup", t, "", 0), NextId(Cur), perm))
    /\ Frozen

\* the transport.close() a cleanup awaits settles
CloseSettles(f) ==
    /\ f \in DOMAIN calls
    /\ calls[f].pc = "close"
    /\ \E resolved \in BOOLEAN, perm \in KillPerms :
          Commit(cleanupAfterClose(Cur, f, resolved, perm))
    /\ Frozen

Signals == {"SIGINT", "SIGTERM"}

\* lines 368-371: a signal whose once-listener is installed runs
\* shutdownGracefully and uninstalls the listener
Signal(s) ==
    /\ ~exited
    /\ s \in listeners
    /\ listeners' = listeners \ {s}
    /\ shuttingDown' = (shuttingDown \/ setLatch(shuttingDown))
    /\ \E perms \in [Toolkits -> KillPerms] : Commit(shutdownEnter(Cur, shuttingDown, perms))
    /\ UNCHANGED <<server_config, instances, inv, exited>>

\* lines 368-371: process.once removed the listener when it ran, so a second
\* delivery of that signal gets the default action and terminates the process
SignalDefault(s) ==
    /\ ~exited
    /\ s \in Signals \ listeners
    /\ exited' = TRUE
    /\ returned' = {}
    /\ UNCHANGED << activeToolkits, shuttingDown, server_config, client, transport, _tools,
                    tools, childProcess, trState, listeners, instances, budget, calls,
                    nObjs, inv, sweeps >>

\* Promise.allSettled resolves once every cleanup the sweep started returned
ShutdownSettles(f) ==
    /\ f \in DOMAIN calls
    /\ calls[f].kind = "shutdown" /\ calls[f].pc = "allSettled"
    /\ calls[f].kids = {}
    /\ Commit(shutdownReturn(Cur, f))
    /\ Frozen

\* line 15-16: the set is exported so that the toolkit's owner adds to it
Register(t) ==
    /\ t \notin activeToolkits
    /\ Commit([Cur EXCEPT !.activeToolkits = @ \cup {t},
                          !.calls = [k \in DOMAIN calls |->
                                       [calls[k] EXCEPT !.fresh = FALSE,
                                                        !.readded = IF calls[k].passed THEN @ \cup {t} ELSE @]]])
    /\ Frozen

\* line 29: childProcess is a public field that only the toolkit's owner
\* assigns: the handle of the subprocess of the current transport
AttachChildProcess(t) ==
    /\ childProcess[t] = <<>> /\ transport[t] # 0
    /\ client[t] # 0 /\ _tools[t] # <<>>
    /\ trState[transport[t]] = "live"
    /\ \E k \in HandleKinds :
          Commit([Cur EXCEPT !.childProcess[t] = <<Handle(transport[t], k[1], k[2])>>])
    /\ Frozen

\* The state after the module is loaded and one toolkit constructed.
Init ==
    /\ activeToolkits = {}
    /\ shuttingDown = FALSE
    /\ instances = {1}
    /\ budget = MaxCalls
    /\ server_config \in { c \in [Toolkits -> Commands] : \A t \in Toolkits \ {1} : c[t] = "npx" }
    /\ client = [t \in Toolkits |-> 0]
    /\ transport = [t \in Toolkits |-> 0]
    /\ _tools = [t \in Toolkits |-> <<>>]
    /\ tools = [t \in Toolkits |-> <<>>]
    /\ childProcess = [t \in Toolkits |-> <<>>]
    /\ trState = [c \in ObjIds |-> "none"]
    /\ listeners = Signals
    /\ exited = FALSE
    /\ calls = <<>>
    /\ nObjs = 0
    /\ inv = NoInvocation
    /\ returned = {}
    /\ sweeps = 0

\* One toolkit from its construction on; no signal arrives.
Next ==
    \/ \E t \in instances : Initialize(t)
    \/ \E f \in CallIds : ConnectSettles(f)
    \/ \E f \in CallIds : RequestSettles(f)
    \/ \E f \in CallIds : GetToolsSettles(f)
    \/ \E t \in instances : Cleanup(t)
    \/ \E f \in CallIds : CloseSettles(f)
    \/ \E t \in instances : Register(t)
    \/ \E t \in instances : AttachChildProcess(t)

Spec == Init /\ [][Next]_vars

\* The state after the toolkits in I were constructed with a command and
\* their initialize() has returned: connected, listed, one adapter built.
\* Each owner has added its toolkit to the registry, or has not.
GoodListing == <<Descriptor("a", ObjSchema)>>

InitAfterInitialize(I, n, invocations) ==
    /\ activeToolkits \in SUBSET I
    /\ shuttingDown = FALSE
    /\ instances = I
    /\ budget = n
    /\ server_config = [t \in Toolkits |-> "npx"]
    /\ client = [t \in Toolkits |-> IF t \in I THEN t ELSE 0]
    /\ transport = [t \in Toolkits |-> IF t \in I THEN t ELSE 0]
    /\ _tools = [t \in Toolkits |-> IF t \in I THEN <<GoodListing>> ELSE <<>>]
    /\ tools = [t \in Toolkits |-> IF t \in I THEN <<[client |-> t, name |-> "a"]>> ELSE <<>>]
    /\ childProcess = [t \in Toolkits |-> <<>>]
    /\ trState = [c \in ObjIds |-> IF c \in I THEN "live" ELSE "none"]
    /\ listeners = Signals
    /\ exited = FALSE
    /\ calls = <<>>
    /\ nObjs = NumToolkits
    /\ inv \in invocations
    /\ returned = {}
    /\ sweeps = 0

\* One initialized toolkit, the consumers' calls and the signals.
InitReady == InitAfterInitialize({1}, ReadyCalls, {NoInvocation})

NextReady ==
    \/ \E t \in instances : Initialize(t)
    \/ \E f \in CallIds : ConnectSettles(f)
    \/ \E f \in CallIds : RequestSettles(f)
    \/ \E f \in CallIds : GetToolsSettles(f)
    \/ \E t \in instances : Cleanup(t)
    \/ \E f \in CallIds : CloseSettles(f)
    \/ \E s \in Signals : Signal(s)
    \/ \E f \in CallIds : ShutdownSettles(f)
    \/ \E t \in instances : Register(t)
    \/ \E t \in instances : AttachChildProcess(t)

SpecReady == InitReady /\ [][NextReady]_vars

\* Several initialized toolkits and the signals; the consumers make no call.
InitSweep == InitAfterInitialize(Toolkits, 0, {NoInvocation})

NextSweep ==
    \/ \E f \in CallIds : CloseSettles(f)
    \/ \E s \in Signals : Signal(s)
    \/ \E f \in CallIds : ShutdownSettles(f)
    \/ \E t \in instances : Register(t)
    \/ \E t \in instances : AttachChildProcess(t)

SpecSweep == InitSweep /\ [][NextSweep]_vars

\* One adapter of an initialized toolkit is invoked once; the remote tool
\* answers every request of the invocation with the same reply.
IdleAdapter == { [Invocation("idle", r) EXCEPT !.client = 1] : r \in Replies }

InitTool == InitAfterInitialize({1}, 0, IdleAdapter)

NextTool ==
    \/ ToolInvoke
    \/ StandardSettles
    \/ CompatSettles

SpecTool == InitTool /\ [][NextTool]_vars

\* The adapter of an initialized toolkit is invoked once while the consumer
\* and the signals tear the toolkit down.  Every request the callback makes
\* settles: the protocol client answers it or rejects it.  The replies are
\* those with the members the callback reads.
ClosingAdapter ==
    { [Invocation("idle", Reply(c, tr, Undefined, Undefined)) EXCEPT !.client = 1] :
        c \in Contents, tr \in ToolResults }

InitClose == InitAfterInitialize({1}, ReadyCalls, ClosingAdapter)

NextClose ==
    \/ ToolInvoke
    \/ StandardSettles
    \/ CompatSettles
    \/ \E t \in instances : Cleanup(t)
    \/ \E f \in CallIds : CloseSettles(f)
    \/ \E s \in Signals : Signal(s)
    \/ \E f \in CallIds : ShutdownSettles(f)

SpecClose ==
    InitClose /\ [][NextClose]_vars /\ WF_vars(StandardSettles) /\ WF_vars(CompatSettles)

\* Several initialized toolkits and the signals, any of them more than once;
\* no owner adds to the registry.
\* A suspended function resumes once what it awaits has settled, and every
\* transport.close() settles.
NextShutdown ==
    \/ \E f \in CallIds : CloseSettles(f)
    \/ \E s \in Signals : Signal(s)
    \/ \E s \in Signals : SignalDefault(s)
    \/ \E f \in CallIds : ShutdownSettles(f)
    \/ \E t \in instances : AttachChildProcess(t)

\* when CloseSettles, ShutdownSettles can take a step
ClosePending == ~exited /\ \E f \in DOMAIN calls : calls[f].pc = "close"

SettledAll ==
    ~exited /\ \E f \in DOMAIN calls : calls[f].kind = "shutdown" /\ calls[f].kids = {}

\* weak fairness of the two, with their enabling conditions written out
SpecShutdown ==
    /\ InitSweep
    /\ [][NextShutdown]_vars
    /\ ([]<>(~ClosePending) \/ []<><<\E f \in CallIds : CloseSettles(f)>>_vars)
    /\ ([]<>(~SettledAll) \/ []<><<\E f \in CallIds : ShutdownSettles(f)>>_vars)

\* ------------------------------------------------------------------ claims

\* C1.  When initialize() has resolved the toolkit is a member of
\* activeToolkits, and when cleanup() has returned it is not.
C1_RegisteredAfterInitialize ==
    \A r \in returned :
        /\ (r.kind = "init" /\ r.res = "ok") => r.member
        /\ r.kind = "cleanup" => ~r.member

\* C2.  When initialize() rejects after it has created the transport, the
\* subprocess that transport spawned is no longer running.
C2_FailedInitializeStopsSubprocess ==
    \A r \in returned :
        (r.kind = "init" /\ r.res = "err" /\ r.obj # 0 /\ trState[r.obj] # "none")
            => trState[r.obj] # "live"

PastCheck(f) == calls[f].ran /\ calls[f].passed

C5_SweepAtMostOnce ==
    /\ sweeps <= 1
    /\ sweeps = 1 => shuttingDown
    /\ \A f \in DOMAIN calls : calls[f].kind = "shutdown" => calls[f].passed
    /\ Cardinality({f \in DOMAIN calls : calls[f].kind = "shutdown"}) <= 1
    /\ \A r \in returned :
          (r.kind = "shutdown" /\ ~r.passed) => r.fresh /\ r.snap = {} /\ r.kids = {}

\* the second signal has arrived while the sweep of the first is still
\* awaiting its cleanups
C5_Witness ==
    /\ \E r \in returned : r.kind = "shutdown" /\ ~r.passed
    /\ \E f \in DOMAIN calls : calls[f].kind = "shutdown" /\ calls[f].kids # {}

\* C6.  The sweep calls cleanup() for every toolkit of its snapshot in the
\* step that takes the snapshot, so before it awaits any of them, and each of
\* them is out of the registry then; the sweep awaits exactly the cleanups
\* that have not returned; each of those waits for nothing but its own
\* close(), and a rejected close() still lets its cleanup resolve; when the sweep returns no cleanup is pending and the snapshot
\* members still registered are those added again during the sweep.
Started(f, t) ==
    \/ \E k \in DOMAIN calls : calls[k].parent = f /\ calls[k].tk = t /\ calls[k].ran
    \/ \E r \in returned : r.parent /\ r.fresh /\ r.ran /\ r.tk = t

C7_InvokeYieldsString ==
    inv.pc = "done" => ~inv.raised /\ inv.out.t = "string"

\* both requests failed, the first on the schema, and the invocation ended
C7_Witness ==
    inv.pc = "done" /\ inv.path = "fallback" /\ inv.error1.zod

\* C8.  The string an invocation resolves to is chosen from the reply in the
\* order content (a non-empty array), toolResult, result, data, content (of
\* any other kind), the whole reply; a member that is a string is returned as
\* it is, any other is serialized.
itselfOrText(v) == IF v.t = "string" THEN v.s ELSE jsonText(v)

Normalized(reply) ==
    LET c == get(reply, "content")
    IN  IF c.t = "array" /\ c.a # <<>> THEN jsonText(c)
        ELSE IF get(reply, "toolResult").t \notin {"undefined", "null"}
             THEN itselfOrText(get(reply, "toolResult"))
        ELSE IF get(reply, "result").t \notin {"undefined", "null"}
             THEN itselfOrText(get(reply, "result"))
        ELSE IF get(reply, "data").t \notin {"undefined", "null"}
             THEN itselfOrText(get(reply, "data"))
        ELSE IF c.t # "undefined" THEN jsonText(c)
        ELSE jsonText(reply)

C8_PriorityOrder ==
    (inv.pc = "done" /\ inv.answered) => inv.out = Str(Normalized(inv.reply))

\* C9.  Every running subprocess belongs to the transport that a toolkit
\* currently references, and there are no more running subprocesses than
\* toolkits: no transport is replaced or dropped without having been closed.
Live == {o \in ObjIds : trState[o] = "live"}

C9_OneLiveTransport ==
    /\ Cardinality(Live) <= Cardinality(instances)
    /\ \A o \in Live : \E t \in instances : transport[t] = o

\* C10.  tools is non-empty only while the toolkit is initialized; client
\* and transport are non-null only then or while an initialize() is in
\* progress; after a rejected initialize() or a returned cleanup() client and
\* transport are null and tools is empty.
Ready(t) == client[t] # 0 /\ _tools[t] # <<>>

Initializing(t) == \E f \in DOMAIN calls : calls[f].kind = "init" /\ calls[f].tk = t

C10_FieldsFollowLifecycle ==
    /\ \A t \in instances :
          /\ tools[t] # <<>> => Ready(t)
          /\ (client[t] # 0 \/ transport[t] # 0) => (Ready(t) \/ Initializing(t))
    /\ \A r \in returned :
          ((r.kind = "init" /\ r.res = "err") \/ r.kind = "cleanup")
              => client[r.tk] = 0 /\ transport[r.tk] = 0 /\ tools[r.tk] = <<>>

\* C11.  An initialize() called while client and _tools are both non-null
\* returns at once and successfully: it constructs no client and no
\* transport, sends no request, calls no cleanup(), and leaves the toolkit's
\* fields and its registry membership as they were.  An initialize() called
\* in any other state resolves only after it was suspended, with a client
\* and transport it constructed, connected and sent tools/list on.
C11_InitializeIdempotent ==
    /\ \A f \in DOMAIN calls : calls[f].kind = "init" => ~calls[f].ready0
    /\ \A r \in returned :
          r.kind = "init" =>
              /\ r.ready0 => /\ r.res = "ok" /\ r.fresh /\ r.same
                             /\ r.obj = 0 /\ r.cl = 0 /\ ~r.ran
                             /\ r.member = r.reg0
              /\ (~r.ready0 /\ r.res = "ok") => ~r.fresh /\ r.obj # 0 /\ r.cl # 0

\* an initialize() on an initialized toolkit has just returned
C11_Witness ==
    \E r \in returned : r.kind = "init" /\ r.ready0 /\ r.res = "ok"

\* C12.  With a command that is absent or empty, initialize() rejects in the
\* step of its call: no transport was constructed and no subprocess spawned
\* by it, and at the rejection the toolkit is not in the registry.
NoCommand(t) == server_config[t] \in {"", Absent}

C12_MissingCommandFails ==
    /\ \A f \in DOMAIN calls : calls[f].kind = "init" => ~NoCommand(calls[f].tk)
    /\ \A r \in returned :
          (r.kind = "init" /\ NoCommand(r.tk))
              => /\ r.res = "err" /\ r.fresh
                 /\ trState[r.obj] = "none" /\ transport[r.tk] = 0
                 /\ ~r.member

\* such an initialize() has just rejected, on a toolkit its owner had registered
C12_Witness ==
    \E r \in returned :
        r.kind = "init" /\ r.res = "err" /\ r.passed /\ NoCommand(r.tk)

\* C13.  A cleanup() that signals the subprocess sends SIGTERM first; it
\* then sends SIGKILL exactly when delivering SIGTERM failed otherwise than
\* with ESRCH.
C13_EscalatesToSigkill ==
    \A r \in returned :
        r.killRes # "" =>
            /\ r.sig # <<>> /\ r.sig[1] = "SIGTERM"
            /\ r.killRes = "EPERM" => r.sig = <<"SIGTERM", "SIGKILL">>
            /\ r.killRes \in {"ok", "ESRCH"} => r.sig = <<"SIGTERM">>

\* C14.  A cleanup() called on a registered toolkit resolves, whatever
\* transport.close() and process.kill did; when it does, client and transport
\* are null, the subprocess handle is null, _tools is null and tools is empty;
\* after a rejected close() the handle it took was still signalled if it had
\* a pid and was not marked killed.
C14_CleanupNeverRejects ==
    \A r \in returned :
        (r.kind = "cleanup" /\ r.in0) =>
            /\ r.res = "ok" /\ r.passed /\ r.nulled
            /\ (r.closeRes = "rejected" /\ r.killable) => r.killRes # ""

\* a cleanup() has just resolved whose close() rejected and whose SIGTERM
\* could not be delivered
C14_Witness ==
    \E r \in returned :
        r.kind = "cleanup" /\ r.in0 /\ r.closeRes = "rejected" /\ r.killRes = "EPERM"

\* C15.  An invocation that has a request outstanding on a client whose
\* transport has been closed ends, resolved to the error string of the
\* callback's fallback.
InFlightClosed == inv.pc \in {"standard", "compat"} /\ trState[inv.client] = "closed"

EndedInError ==
    inv.pc = "done" /\ ~inv.raised /\ inv.out.t = "string" /\ inv.path = "fallback"

C15_InvokeEndsAfterClose == InFlightClosed ~> EndedInError

\* an invocation called on a live transport has ended after a request of it
\* found the transport closed
C15_Witness ==
    inv.pc = "done" /\ inv.live0 /\ inv.cut /\ trState[inv.client] = "closed"

\* C16.  Once shutdownGracefully has taken its snapshot it returns, without
\* raising, whatever its cleanups met, unless a signal whose listener was
\* used up terminates the process first.
Sweeping == \E f \in DOMAIN calls : calls[f].kind = "shutdown"

SweepReturned == \E r \in returned : r.kind = "shutdown" /\ r.passed /\ r.res = "ok"

C17_OneRequestPerInvoke ==
    inv.pc = "done" => inv.requests = 1

\* C18.  A cleanup() entered while the toolkit is not in the registry returns
\* without being suspended: it got no further than the check, client,
\* transport, _tools, tools and childProcess are as they were, it invoked no
\* transport.close(), sent no signal, and the toolkit is still not registered.
C18_UnregisteredCleanupNoOp ==
    /\ \A f \in DOMAIN calls : calls[f].ran => calls[f].in0
    /\ \A r \in returned :
          (r.ran /\ ~r.in0) =>
              /\ ~r.passed /\ r.same /\ ~r.member
              /\ ~r.closed /\ r.sig = <<>> /\ r.killRes = ""
              /\ r.kind = "cleanup" => r.fresh

\* a cleanup() of an initialized toolkit that was never registered has just
\* returned
C18_Witness ==
    \E r \in returned : r.kind = "cleanup" /\ r.ran /\ ~r.in0 /\ r.ready

\* C19.  In every state a toolkit whose client and _tools are both set (the
\* test of lines 44-47) has a transport that is set and not closed, and an
\* initialize() that has just returned successfully leaves no cleanup() of
\* the same toolkit in flight.
C19_ReadyToolkitIsIntact ==
    /\ \A t \in Toolkits :
          Ready(t) => transport[t] # 0 /\ trState[transport[t]] # "closed"
    /\ \A r \in returned :
          (r.kind = "init" /\ r.res = "ok") =>
              /\ Ready(r.tk)
              /\ ~\E f \in DOMAIN calls :
                    calls[f].kind = "cleanup" /\ calls[f].tk = r.tk

\* C20.  The latch is set from the first handled signal on, whatever the
\* registry held; only the handler of the first signal gets past the latch;
\* the coordinator starts cleanups only in the step that takes the snapshot
\* and only for members of the snapshot, so a toolkit registered later is
\* never cleaned up by it.
C20_LatchConsumedOnce ==
    /\ listeners # Signals => shuttingDown
    /\ \A r \in returned :
          (r.kind = "shutdown" /\ r.fresh) =>
              (r.passed <=> Cardinality(listeners) = Cardinality(Signals) - 1)
    /\ \A f \in DOMAIN calls :
          /\ calls[f].kind = "shutdown" =>
                /\ calls[f].passed
                /\ calls[f].fresh => Cardinality(listeners) = Cardinality(Signals) - 1
          /\ (calls[f].parent # 0 /\ calls[f].fresh) =>
                /\ calls[calls[f].parent].fresh
                /\ calls[f].tk \in calls[calls[f].parent].snap
    /\ \A r \in returned :
          (r.kind = "cleanup" /\ r.parent) => ~r.fresh

\* the registry was empty at the first signal, a toolkit was registered
\* afterwards, and the second signal has just been handled: the toolkit is
\* registered and untouched
C20_Witness ==
    /\ \E r \in returned : r.kind = "shutdown" /\ ~r.passed
    /\ listeners = {}
    /\ calls = <<>>
    /\ activeToolkits # {}
    /\ \A t \in Toolkits : Ready(t) /\ trState[transport[t]] = "live"

====
